---- MODULE Spec2Model ----
(***************************************************************************)
(* A model of the CRM API: the client-manifest cache of                    *)
(* CRM_CLIENT_MANIFEST (manifest_generator.py and manifest_api.py), the    *)
(* token service of API_DATABASE/auth.py, and the request handlers over    *)
(* the auth store (auth_api.py, auth_manage_user.py) and the CRM store     *)
(* (crm_api.py).                                                           *)
(***************************************************************************)
EXTENDS Integers, Sequences, FiniteSets, TLC

VARIABLES
    \* ---- the watched directory CLIENT_DIR and the wall clock
    fs,              \* path -> NoFile or [content, mtime]
    clock,           \* the time of the latest file write
    \* ---- manifest_generator.py: module globals and the files it writes
    LAST_MOD,        \* manifest_generator.LAST_MOD
    manifest_cache,  \* manifest_generator.manifest_cache (EmptyCache = {})
    zipFile,         \* ZIP_PATH: NoZip or the archive's entries
    cacheFile,       \* CACHE_FILE (outside CLIENT_DIR): NoFile or the dumped manifest
    configFile,      \* CONFIG_FILE: NoFile or the JSON object it holds
    \* ---- sequential callers of manifest_generator.update_manifest_cache()
    mods,            \* paths modified since the last call returned
    lastMods,        \* paths modified between the last two calls
    prevRet,         \* what the call before the last returned (NoReturn: none)
    lastRet,         \* what the last call returned
    rebuilt,         \* whether the last call ran generate_manifest()
    \* ---- concurrent callers of manifest_generator.update_manifest_cache()
    pc,              \* thread -> position in update_manifest_cache()
    latest_mtime,    \* thread -> create_zip_if_needed()'s local latest_mtime
    ret,             \* thread -> returned manifest
    CACHE_LOCK,      \* NoThread or the thread holding CACHE_LOCK
    genCount,        \* number of generate_manifest() executions
    \* ---- manifest_api.py: its watched directory, module globals, and the
    \*      calls of GET /update/latest since a file was last changed from outside
    api_fs,              \* path under manifest_api.CLIENT_DIR -> NoFile or [content, mtime]
    api_LAST_MOD,        \* manifest_api.LAST_MOD
    api_manifest_cache,  \* manifest_api.manifest_cache
    api_first,           \* what the first of these calls returned (NoReturn: no call yet)
    api_last,            \* what the last of these calls returned
    api_regens,          \* generate_manifest() executions by the calls after the first
    \* ---- API_DATABASE/auth.py: time, and the token a client holds
    now,             \* datetime.utcnow(), in ticks of 1/TicksPerSecond s
    token,           \* NoToken or the JWT [sub, exp, sig] the client presents
    tok_issue,       \* [at, ttl, sub]: the create_access_token() call that made it
    tok_result,      \* what verify_token(token) just returned (NoResult: not called)
    \* ---- the two stores and the last HTTP response
    authDb,          \* users.db: the records of API_DATABASE.models.User
    crmDb,           \* the CRM database: the records of CRM_DATABASE.models.User
    resp,            \* the request just handled and its outcome (NoResp: none)
    lastDeleted,     \* the id the last successful auth-store delete removed (0: none)
    token_user_id,   \* the id of the record the login that issued `token` authenticated
                     \* (0: the token was not issued by a login since the start)
    \* ---- overlapping requests to the stores
    inflight         \* request -> Idle or the handler that has read and not yet committed

genVars  == <<fs, clock, LAST_MOD, manifest_cache, zipFile, cacheFile, configFile>>
seqVars  == <<mods, lastMods, prevRet, lastRet, rebuilt>>
concVars == <<pc, latest_mtime, ret, CACHE_LOCK, genCount>>
apiVars  == <<api_fs, api_LAST_MOD, api_manifest_cache, api_first, api_last, api_regens>>
tokVars  == <<now, token, tok_issue, tok_result>>
dbVars   == <<authDb, crmDb, resp, lastDeleted, token_user_id>>
raceVars == <<inflight>>

\* what the actions of one part of the program leave alone
notSeq  == <<concVars, apiVars, tokVars, dbVars, raceVars>>
notConc == <<seqVars, apiVars, tokVars, dbVars, raceVars>>
notApi  == <<fs, LAST_MOD, manifest_cache, zipFile, cacheFile, configFile, seqVars,
             concVars, tokVars, dbVars, raceVars>>
notTok  == <<genVars, seqVars, concVars, apiVars, dbVars, raceVars>>
notDb   == <<genVars, seqVars, concVars, apiVars, tok_issue, tok_result, raceVars>>

----------------------------------------------------------------------------
(* Bounds *)

MaxInitMtime == 2   \* modification times of the files present at start: 1..MaxInitMtime
MaxClock     == 4   \* file writes stop when the clock reaches MaxClock
MaxMods      == 2   \* modifications recorded between two sequential calls
NThreads     == 2   \* concurrent callers of update_manifest_cache()

Paths    == {"a.txt", "b/c.txt"}
Contents == {[bytes |-> "hi"], [bytes |-> "hello"]}
Threads  == 1..NThreads

NoFile     == [absent |-> TRUE]       \* no such file
NoZip      == [absent |-> TRUE]       \* ZIP_PATH does not exist
NoReturn   == [none |-> TRUE]         \* no call has returned
NoThread   == 0
EmptyCache == [k \in {} |-> 0]        \* the dict {}

\* what CONFIG_FILE can hold: nothing, both keys, or 'download_url' missing
ValidConfig == [version |-> "1.0.0", download_url |-> "https://dl"]
ConfigFiles == {NoFile, ValidConfig, [version |-> "1.0.0"]}

\* a call that ended with an exception instead of a return value
Raised(e) == [raised |-> e]

IsRaised(r) == "raised" \in DOMAIN r

----------------------------------------------------------------------------
(* manifest_generator.py: pure parts *)

FileRec(c, m) == [content |-> c, mtime |-> m]

Present(f) == {p \in DOMAIN f : f[p] # NoFile}

SetMax(S) == CHOOSE x \in S : \A y \in S : y <= x

\* max((f.stat().st_mtime for f in CLIENT_DIR.rglob("*") if f.is_file()), default=0)
LatestMtime(f) ==
    IF Present(f) = {} THEN 0 ELSE SetMax({f[p].mtime : p \in Present(f)})

\* hashlib.sha256 over the file's bytes: a digest is not the content, and
\* different contents have different digests
sha256_file(c) == <<"sha256", c>>

\* read_internal_config(): the dict of CONFIG_FILE, FileNotFoundError when the
\* file is missing, KeyError when 'version' or 'download_url' is missing
read_internal_config ==
    IF configFile = NoFile THEN Raised("FileNotFoundError")
    ELSE IF ~({"version", "download_url"} \subseteq DOMAIN configFile) THEN Raised("KeyError")
    ELSE configFile

\* generate_manifest(): the manifest of the files f, or the exception of
\* read_internal_config(), which is raised before anything is written
generate_manifest(f) ==
    LET config == read_internal_config IN
    IF IsRaised(config) THEN config
    ELSE [version      |-> config.version,
          download_url |-> config.download_url,
          files        |-> [p \in Present(f) |-> sha256_file(f[p].content)]]

\* not CLIENT_DIR.exists() or not any(CLIENT_DIR.iterdir())
DirEmpty(f) == Present(f) = {}

\* create_zip_if_needed() returns without writing
ZipSkip(f, z, lm) ==
    \/ DirEmpty(f)
    \/ z # NoZip /\ LatestMtime(f) <= lm

\* the archive create_zip_if_needed() writes: root-relative names -> bytes
Archive(f) == [p \in Present(f) |-> f[p].content]

ZipAfter(f, z, lm) == IF ZipSkip(f, z, lm) THEN z ELSE Archive(f)

LastModAfterZip(f, z, lm) == IF ZipSkip(f, z, lm) THEN lm ELSE LatestMtime(f)

manifest_needs_update(f, lm) == LatestMtime(f) > lm

\* `not manifest_cache or manifest_needs_update()`
NeedsGenerate(mc, f, lm) == mc = EmptyCache \/ manifest_needs_update(f, lm)

\* manifest_needs_update() is not called when the cache is empty (short-circuit)
LastModAfterCheck(mc, f, lm) ==
    IF mc # EmptyCache /\ manifest_needs_update(f, lm) THEN LatestMtime(f) ELSE lm

----------------------------------------------------------------------------
(* Initial states of the manifest generator *)

InitFiles ==
    [Paths -> {NoFile} \cup {FileRec(c, m) : c \in Contents, m \in 1..MaxInitMtime}]

\* process start: the module globals of lines 21-23; the directory holds any
\* files, ZIP_PATH may be left over from an earlier run
GenInit ==
    /\ fs \in InitFiles
    /\ clock = MaxInitMtime
    /\ LAST_MOD = 0
    /\ manifest_cache = EmptyCache
    /\ zipFile \in {NoZip, [p \in {} |-> 0]}
    /\ cacheFile = NoFile
    /\ configFile = ValidConfig

\* the same for an empty directory: the start of the specifications that
\* do not exercise manifest_generator
GenOff ==
    /\ fs = [p \in Paths |-> NoFile]
    /\ clock = MaxInitMtime
    /\ LAST_MOD = 0
    /\ manifest_cache = EmptyCache
    /\ zipFile = NoZip
    /\ cacheFile = NoFile
    /\ configFile = ValidConfig

SeqInit ==
    /\ mods = <<>>
    /\ lastMods = <<>>
    /\ prevRet = NoReturn
    /\ lastRet = NoReturn
    /\ rebuilt = FALSE

ConcInit ==
    /\ pc = [t \in Threads |-> "idle"]
    /\ latest_mtime = [t \in Threads |-> 0]
    /\ ret = [t \in Threads |-> NoReturn]
    /\ CACHE_LOCK = NoThread
    /\ genCount = 0

----------------------------------------------------------------------------
(* Sequential use: the environment modifies files between whole calls *)

\* a file under CLIENT_DIR gets new content and a newer modification time
ModifyFile(p, c) ==
    /\ clock < MaxClock
    /\ Len(mods) < MaxMods
    /\ fs[p] # NoFile
    /\ fs[p].content # c
    /\ clock' = clock + 1
    /\ fs' = [fs EXCEPT ![p] = FileRec(c, clock + 1)]
    /\ mods' = Append(mods, p)
    /\ UNCHANGED <<LAST_MOD, manifest_cache, zipFile, cacheFile, configFile>>
    /\ UNCHANGED <<lastMods, prevRet, lastRet, rebuilt>>
    /\ UNCHANGED notSeq

\* a file under CLIENT_DIR is removed
DeleteFile(p) ==
    /\ Len(mods) < MaxMods
    /\ fs[p] # NoFile
    /\ fs' = [fs EXCEPT ![p] = NoFile]
    /\ mods' = Append(mods, p)
    /\ UNCHANGED <<clock, LAST_MOD, manifest_cache, zipFile, cacheFile, configFile>>
    /\ UNCHANGED <<lastMods, prevRet, lastRet, rebuilt>>
    /\ UNCHANGED notSeq

\* a file is put under CLIENT_DIR with the modification time m it carries: a
\* new one (the time of the write) or a preserved older one (a copy or an
\* extraction that keeps timestamps)
AddFile(p, c, m) ==
    /\ Len(mods) < MaxMods
    /\ fs[p] = NoFile
    /\ m <= clock + 1
    /\ m <= MaxClock
    /\ clock' = IF m > clock THEN m ELSE clock
    /\ fs' = [fs EXCEPT ![p] = FileRec(c, m)]
    /\ mods' = Append(mods, p)
    /\ UNCHANGED <<LAST_MOD, manifest_cache, zipFile, cacheFile, configFile>>
    /\ UNCHANGED <<lastMods, prevRet, lastRet, rebuilt>>
    /\ UNCHANGED notSeq

\* CONFIG_FILE is removed, written without 'download_url', or written in full
WriteConfig(cfg) ==
    /\ cfg # configFile
    /\ configFile' = cfg
    /\ UNCHANGED <<fs, clock, LAST_MOD, manifest_cache, zipFile, cacheFile>>
    /\ UNCHANGED seqVars
    /\ UNCHANGED notSeq

\* one whole call of manifest_generator.update_manifest_cache(): the value it
\* returns, or the exception of generate_manifest() that leaves it
update_manifest_cache ==
    LET lm1    == LastModAfterZip(fs, zipFile, LAST_MOD)
        gen    == NeedsGenerate(manifest_cache, fs, lm1)
        m      == generate_manifest(fs)
        failed == gen /\ IsRaised(m)
        mc2    == IF gen /\ ~failed THEN m ELSE manifest_cache
    IN  /\ zipFile' = ZipAfter(fs, zipFile, LAST_MOD)
        /\ LAST_MOD' = LastModAfterCheck(manifest_cache, fs, lm1)
        /\ manifest_cache' = mc2
        /\ cacheFile' = IF gen /\ ~failed THEN m ELSE cacheFile
        /\ rebuilt' = (gen /\ ~failed)
        /\ prevRet' = lastRet
        /\ lastRet' = IF failed THEN m ELSE mc2
        /\ lastMods' = mods
        /\ mods' = <<>>
        /\ UNCHANGED <<fs, clock, configFile>>
        /\ UNCHANGED notSeq

SeqNext ==
    \/ \E p \in Paths, c \in Contents : ModifyFile(p, c)
    \/ update_manifest_cache

\* the same while CONFIG_FILE is removed and rewritten
ConfigNext ==
    \/ \E p \in Paths, c \in Contents : ModifyFile(p, c)
    \/ \E cfg \in ConfigFiles : WriteConfig(cfg)
    \/ update_manifest_cache

\* the same while files are also removed from the directory and put into it
FilesNext ==
    \/ \E p \in Paths, c \in Contents : ModifyFile(p, c)
    \/ \E p \in Paths : DeleteFile(p)
    \/ \E p \in Paths, c \in Contents, m \in 1..MaxClock : AddFile(p, c, m)
    \/ update_manifest_cache

----------------------------------------------------------------------------
(* Concurrent use: threads step through update_manifest_cache() over a     *)
(* directory that does not change                                          *)

\* (a variant that does not wait for the lock)
LockFree_never_waits == TRUE

\* `with CACHE_LOCK:` enters only when no thread holds the lock
LockFree == CACHE_LOCK = NoThread

\* a request thread enters update_manifest_cache()
Call(t) ==
    /\ pc[t] = "idle"
    /\ pc' = [pc EXCEPT ![t] = "zip_check"]
    /\ UNCHANGED <<genVars, latest_mtime, ret, CACHE_LOCK, genCount>>
    /\ UNCHANGED notConc

\* create_zip_if_needed(), lines 118-126: reads the directory, ZIP_PATH and LAST_MOD
ZipCheck(t) ==
    /\ pc[t] = "zip_check"
    /\ IF ZipSkip(fs, zipFile, LAST_MOD)
         THEN /\ pc' = [pc EXCEPT ![t] = "lock_wait"]
              /\ UNCHANGED latest_mtime
         ELSE /\ pc' = [pc EXCEPT ![t] = "zip_write"]
              /\ latest_mtime' = [latest_mtime EXCEPT ![t] = LatestMtime(fs)]
    /\ UNCHANGED <<genVars, ret, CACHE_LOCK, genCount>>
    /\ UNCHANGED notConc

\* create_zip_if_needed(), lines 129-134: writes the archive
ZipWrite(t) ==
    /\ pc[t] = "zip_write"
    /\ zipFile' = Archive(fs)
    /\ pc' = [pc EXCEPT ![t] = "zip_set"]
    /\ UNCHANGED <<fs, clock, LAST_MOD, manifest_cache, cacheFile, configFile>>
    /\ UNCHANGED <<latest_mtime, ret, CACHE_LOCK, genCount>>
    /\ UNCHANGED notConc

\* create_zip_if_needed(), line 137: LAST_MOD = latest_mtime
ZipSetLastMod(t) ==
    /\ pc[t] = "zip_set"
    /\ LAST_MOD' = latest_mtime[t]
    /\ pc' = [pc EXCEPT ![t] = "lock_wait"]
    /\ UNCHANGED <<fs, clock, manifest_cache, zipFile, cacheFile, configFile>>
    /\ UNCHANGED <<latest_mtime, ret, CACHE_LOCK, genCount>>
    /\ UNCHANGED notConc

\* update_manifest_cache(), line 148: with CACHE_LOCK
Acquire(t) ==
    /\ pc[t] = "lock_wait"
    /\ LockFree
    /\ CACHE_LOCK' = t
    /\ pc' = [pc EXCEPT ![t] = "check"]
    /\ UNCHANGED <<genVars, latest_mtime, ret, genCount>>
    /\ UNCHANGED notConc

\* update_manifest_cache(), line 149: the test, and line 152 when it is false
Check(t) ==
    /\ pc[t] = "check"
    /\ LAST_MOD' = LastModAfterCheck(manifest_cache, fs, LAST_MOD)
    /\ IF NeedsGenerate(manifest_cache, fs, LAST_MOD)
         THEN /\ pc' = [pc EXCEPT ![t] = "generate"]
              /\ UNCHANGED <<ret, CACHE_LOCK>>
         ELSE /\ pc' = [pc EXCEPT ![t] = "done"]
              /\ ret' = [ret EXCEPT ![t] = manifest_cache]
              /\ CACHE_LOCK' = NoThread
    /\ UNCHANGED <<fs, clock, manifest_cache, zipFile, cacheFile, configFile>>
    /\ UNCHANGED <<latest_mtime, genCount>>
    /\ UNCHANGED notConc

\* update_manifest_cache(), lines 150-151: generate_manifest(), then the lock
\* is left, by the return or by the exception
Generate(t) ==
    LET m == generate_manifest(fs) IN
    /\ pc[t] = "generate"
    /\ manifest_cache' = IF IsRaised(m) THEN manifest_cache ELSE m
    /\ cacheFile' = IF IsRaised(m) THEN cacheFile ELSE m
    /\ genCount' = genCount + 1
    /\ ret' = [ret EXCEPT ![t] = m]
    /\ CACHE_LOCK' = NoThread
    /\ pc' = [pc EXCEPT ![t] = "done"]
    /\ UNCHANGED <<fs, clock, LAST_MOD, zipFile, configFile, latest_mtime>>
    /\ UNCHANGED notConc

ConcNext ==
    \E t \in Threads :
        \/ Call(t)
        \/ ZipCheck(t)
        \/ ZipWrite(t)
        \/ ZipSetLastMod(t)
        \/ Acquire(t)
        \/ Check(t)
        \/ Generate(t)

(* Concurrent use over a directory that changes while calls are running,   *)
(* each thread serving one request after another                            *)

\* a file under CLIENT_DIR gets new content and a newer modification time,
\* at any point of the running calls
TouchFile(p, c) ==
    /\ clock < MaxClock
    /\ fs[p] # NoFile
    /\ fs[p].content # c
    /\ clock' = clock + 1
    /\ fs' = [fs EXCEPT ![p] = FileRec(c, clock + 1)]
    /\ UNCHANGED <<LAST_MOD, manifest_cache, zipFile, cacheFile, configFile>>
    /\ UNCHANGED concVars
    /\ UNCHANGED notConc

\* the call has returned: the thread is free for the next request
Return(t) ==
    /\ pc[t] = "done"
    /\ pc' = [pc EXCEPT ![t] = "idle"]
    /\ latest_mtime' = [latest_mtime EXCEPT ![t] = 0]
    /\ ret' = [ret EXCEPT ![t] = NoReturn]
    /\ UNCHANGED <<genVars, CACHE_LOCK, genCount>>
    /\ UNCHANGED notConc

LiveNext ==
    \/ \E p \in Paths, c \in Contents : TouchFile(p, c)
    \/ \E t \in Threads : Return(t)
    \/ ConcNext

----------------------------------------------------------------------------
(* manifest_api.py: the cache served by GET /update/latest. Its CACHE_FILE  *)
(* is CLIENT_DIR/manifest_cache.json, a file of the watched directory.      *)

CACHE_FILE == "manifest_cache.json"

ApiPaths == Paths \cup {CACHE_FILE}

\* manifest_api.generate_manifest(): the dict it builds from the files under CLIENT_DIR
api_generate_manifest(f) ==
    [version  |-> "1.0.0",
     base_url |-> "https://dl",
     files    |-> [p \in Present(f) |-> sha256_file(f[p].content)]]

\* manifest_api.manifest_needs_update()
api_manifest_needs_update(f, lm) == LatestMtime(f) > lm

\* `not manifest_cache or manifest_needs_update()`
ApiNeedsGenerate(mc, f, lm) == mc = EmptyCache \/ api_manifest_needs_update(f, lm)

ApiInit ==
    /\ api_fs \in {f \in [ApiPaths -> {NoFile} \cup {FileRec(c, m) : c \in Contents,
                                                      m \in 1..MaxInitMtime}] :
                      f[CACHE_FILE] = NoFile \/ f[CACHE_FILE].mtime = 1}
    /\ api_LAST_MOD = 0
    /\ api_manifest_cache = EmptyCache
    /\ api_first = NoReturn
    /\ api_last = NoReturn
    /\ api_regens = 0

\* the same for an empty directory
ApiOff ==
    /\ api_fs = [p \in ApiPaths |-> NoFile]
    /\ api_LAST_MOD = 0
    /\ api_manifest_cache = EmptyCache
    /\ api_first = NoReturn
    /\ api_last = NoReturn
    /\ api_regens = 0

\* something other than the service changes a file of the directory
ApiModifyFile(p, c) ==
    /\ clock < MaxClock
    /\ api_fs[p] # NoFile
    /\ api_fs[p].content # c
    /\ clock' = clock + 1
    /\ api_fs' = [api_fs EXCEPT ![p] = FileRec(c, clock + 1)]
    /\ api_first' = NoReturn
    /\ api_last' = NoReturn
    /\ api_regens' = 0
    /\ UNCHANGED <<api_LAST_MOD, api_manifest_cache>>
    /\ UNCHANGED notApi

\* GET /update/latest: update_manifest_cache(), then the cache is returned.
\* generate_manifest() hashes the directory, then writes CACHE_FILE into it.
latest_update ==
    LET gen == ApiNeedsGenerate(api_manifest_cache, api_fs, api_LAST_MOD)
        m   == api_generate_manifest(api_fs)
        mc2 == IF gen THEN m ELSE api_manifest_cache
    IN  /\ gen => clock < MaxClock
        /\ api_LAST_MOD' = IF api_manifest_cache # EmptyCache
                              /\ api_manifest_needs_update(api_fs, api_LAST_MOD)
                           THEN LatestMtime(api_fs) ELSE api_LAST_MOD
        /\ api_manifest_cache' = mc2
        /\ IF gen
             THEN /\ clock' = clock + 1
                  /\ api_fs' = [api_fs EXCEPT ![CACHE_FILE] = FileRec(m, clock + 1)]
             ELSE UNCHANGED <<clock, api_fs>>
        /\ api_first' = IF api_first = NoReturn THEN mc2 ELSE api_first
        /\ api_last' = mc2
        /\ api_regens' = IF gen /\ api_first # NoReturn THEN api_regens + 1 ELSE api_regens
        /\ UNCHANGED notApi

ApiNext ==
    \/ \E p \in Paths, c \in Contents : ApiModifyFile(p, c)
    \/ latest_update

----------------------------------------------------------------------------
(* API_DATABASE/auth.py: the token service *)

TicksPerSecond == 2   \* clock resolution of the model: ticks in one second
MaxNow         == 6   \* the token clock stops at MaxNow ticks
MaxTtl         == 3   \* expires_delta given to create_access_token(): 0..MaxTtl ticks

DefaultExpireMinutes == 15   \* timedelta(minutes=15)
TOKEN_EXPIRES        == 1    \* env_var.TOKEN_EXPIRES, in minutes

Emails   == {"a@crm.io", "b@crm.io"}
NoSub    == "(no sub)"         \* the payload has no "sub" key
NoToken  == [none |-> TRUE]    \* the request carries no bearer token
NoResult == [none |-> TRUE]

Minutes(n) == n * 60 * TicksPerSecond

\* the claims of the token create_access_token() signs with SECRET_KEY at
\* time t: "sub" from data, "exp" = utcnow() + expires_delta (15 minutes
\* when expires_delta is None or zero), encoded by jwt.encode as whole seconds
\* (a variant that ignores expires_delta)
create_access_token_ignoring_delta(data, expires_delta, t) ==
    [sub |-> data.sub,
     exp |-> (t + Minutes(DefaultExpireMinutes)) \div TicksPerSecond,
     sig |-> "valid"]

create_access_token(data, expires_delta, t) ==
    [sub |-> data.sub,
     exp |-> (t + (IF expires_delta # 0 THEN expires_delta
                   ELSE Minutes(DefaultExpireMinutes))) \div TicksPerSecond,
     sig |-> "valid"]

\* jwt.decode(token, SECRET_KEY, algorithms=[ALGORITHM]) returns the payload:
\* the signature verifies and the time is before "exp" (RFC 7519: a token
\* must not be accepted on or after its expiration time)
jwt_decode_ok(tok, t) ==
    /\ tok.sig = "valid"
    /\ tok.exp * TicksPerSecond > t

Unauthorized(detail) == [ok |-> FALSE, status |-> 401, detail |-> detail]

\* verify_token(): TokenData(email=sub), or the 401 HTTPException
verify_token(tok, t) ==
    IF ~jwt_decode_ok(tok, t) THEN Unauthorized("Could not verify credentials")
    ELSE IF tok.sub = NoSub THEN Unauthorized("Could not verify credentials")
    ELSE [ok |-> TRUE, email |-> tok.sub]

TokInit ==
    /\ now = 0
    /\ token = NoToken
    /\ tok_issue = [at |-> 0, ttl |-> 0, sub |-> NoSub]
    /\ tok_result = NoResult

\* time passes
Tick ==
    /\ now < MaxNow
    /\ now' = now + 1
    /\ tok_result' = NoResult
    /\ UNCHANGED <<token, tok_issue>>
    /\ UNCHANGED notTok

\* create_access_token(data, expires_delta) is called and the client keeps the token
IssueToken(sub, ttl) ==
    /\ token' = create_access_token([sub |-> sub], ttl, now)
    /\ tok_issue' = [at |-> now, ttl |-> ttl, sub |-> sub]
    /\ tok_result' = NoResult
    /\ UNCHANGED now
    /\ UNCHANGED notTok

\* the token is altered after signing: its signature no longer verifies
TamperToken(sub) ==
    /\ token # NoToken
    /\ token.sig = "valid"
    /\ token.sub # sub
    /\ token' = [token EXCEPT !.sub = sub, !.sig = "invalid"]
    /\ tok_result' = NoResult
    /\ UNCHANGED <<now, tok_issue>>
    /\ UNCHANGED notTok

\* verify_token(token) is called
VerifyToken ==
    /\ token # NoToken
    /\ tok_result' = verify_token(token, now)
    /\ UNCHANGED <<now, token, tok_issue>>
    /\ UNCHANGED notTok

TokNext ==
    \/ Tick
    \/ \E sub \in Emails \cup {NoSub}, ttl \in 0..MaxTtl : IssueToken(sub, ttl)
    \/ \E sub \in Emails \cup {NoSub} : TamperToken(sub)
    \/ VerifyToken

----------------------------------------------------------------------------
(* The auth store (API_DATABASE) and the CRM store (CRM_DATABASE) *)

MaxId == 2   \* ids the stores hand out: 1..MaxId

Names     == {"Ann"}
Roles     == {"admin"}
Passwords == {"pw1", "pw2"}     \* passwords tried at login
NewPasswords == {"pw1"}         \* passwords given to create_user
Salts     == {"salt"}
Ids       == 1..MaxId
NoResp    == [op |-> "none"]

\* passlib's bcrypt hash of a password under a salt, and its verification
get_pwd_hash(password, salt) ==
    [scheme |-> "bcrypt", salt |-> salt, digest |-> <<salt, password>>]

verify_pwd(plain_pwd, hashed_pwd) == get_pwd_hash(plain_pwd, hashed_pwd.salt) = hashed_pwd

IdsOf(db) == {r.id : r \in db}

ById(db, id) == CHOOSE r \in db : r.id = id

ByEmail(db, email) == CHOOSE r \in db : r.email = email

\* Column(Integer, primary_key=True): the database assigns the largest id in use + 1
NextId(db) == IF db = {} THEN 1 ELSE SetMax(IdsOf(db)) + 1

\* (a variant for a column without unique=True)
UniqueEmails_not_enforced(db) == TRUE

\* Column(..., unique=True) on email: a commit that would leave two rows with
\* one email raises IntegrityError
UniqueEmails(db) == \A r1, r2 \in db : r1.email = r2.email => r1 = r2

\* get_current_user(): the bearer token is required (oauth2_scheme), verified,
\* and its subject looked up by email in the auth store
get_current_user(tok, db, t) ==
    IF tok = NoToken THEN Unauthorized("Not authenticated")
    ELSE LET token_data == verify_token(tok, t) IN
         IF ~token_data.ok THEN token_data
         ELSE IF \A r \in db : r.email # token_data.email
              THEN Unauthorized("User does not exist")
              ELSE [ok |-> TRUE, user |-> ByEmail(db, token_data.email)]

Response(op, id, email, pw, status, detail) ==
    [op |-> op, id |-> id, email |-> email, pw |-> pw, status |-> status, detail |-> detail]

\* the response of a handler whose get_current_user dependency raised
Rejected(op, id, email, auth) ==
    /\ resp' = Response(op, id, email, "", auth.status, auth.detail)
    /\ UNCHANGED <<authDb, crmDb, lastDeleted>>

\* the requests that can be in progress at the same time, each in its own
\* worker thread with its own database session
Requests == {"r1", "r2"}

Idle == [op |-> "idle"]

DbInit ==
    /\ authDb = {}
    /\ crmDb = {}
    /\ resp = NoResp
    /\ lastDeleted = 0
    /\ token_user_id = 0
    /\ inflight = [r \in Requests |-> Idle]

\* the time of the store specifications: a token issued at time 0 has expired
StoreTokInit ==
    /\ now = Minutes(TOKEN_EXPIRES)
    /\ token = NoToken
    /\ tok_issue = [at |-> 0, ttl |-> 0, sub |-> NoSub]
    /\ tok_result = NoResult

(* the client's token, and the operator of users.db *)

\* the client presents a token it got at a login TOKEN_EXPIRES minutes ago
PresentExpiredToken(email) ==
    /\ token' = create_access_token([sub |-> email], Minutes(TOKEN_EXPIRES), 0)
    /\ token' # token
    /\ token_user_id' = 0
    /\ resp' = NoResp
    /\ UNCHANGED <<authDb, crmDb, lastDeleted, now>>
    /\ UNCHANGED notDb

\* the client presents a token that was not signed with SECRET_KEY
PresentForgedToken(email) ==
    /\ token' = [sub |-> email, exp |-> (now \div TicksPerSecond) + 1, sig |-> "invalid"]
    /\ token' # token
    /\ token_user_id' = 0
    /\ resp' = NoResp
    /\ UNCHANGED <<authDb, crmDb, lastDeleted, now>>
    /\ UNCHANGED notDb

\* the client sends no Authorization header
PresentNoToken ==
    /\ token # NoToken
    /\ token' = NoToken
    /\ token_user_id' = 0
    /\ resp' = NoResp
    /\ UNCHANGED <<authDb, crmDb, lastDeleted, now>>
    /\ UNCHANGED notDb

\* an operator clears a user's is_active column in users.db
Deactivate(id) ==
    /\ id \in IdsOf(authDb)
    /\ ById(authDb, id).is_active
    /\ authDb' = (authDb \ {ById(authDb, id)})
                 \cup {[ById(authDb, id) EXCEPT !.is_active = FALSE]}
    /\ resp' = NoResp
    /\ UNCHANGED <<crmDb, lastDeleted, now, token, token_user_id>>
    /\ UNCHANGED notDb

(* auth_api.py *)

\* (a variant without the is_active test)
login_for_access_token_no_active_test(username, password) ==
    LET found == \E r \in authDb : r.email = username
        user  == ByEmail(authDb, username)
    IN  /\ IF ~found \/ ~verify_pwd(password, user.hashed_pwd)
             THEN /\ resp' = Response("login", 0, username, password, 404, "Wrong info!")
                  /\ UNCHANGED <<token, token_user_id>>
             ELSE /\ token' = create_access_token([sub |-> user.email],
                                                  Minutes(TOKEN_EXPIRES), now)
                  /\ token_user_id' = user.id
                  /\ resp' = Response("login", 0, username, password, 200, "bearer")
        /\ UNCHANGED <<authDb, crmDb, lastDeleted, now>>
        /\ UNCHANGED notDb

\* POST /auth/token
login_for_access_token(username, password) ==
    LET found == \E r \in authDb : r.email = username
        user  == ByEmail(authDb, username)
    IN  /\ IF ~found \/ ~verify_pwd(password, user.hashed_pwd)
             THEN /\ resp' = Response("login", 0, username, password, 404, "Wrong info!")
                  /\ UNCHANGED <<token, token_user_id>>
             ELSE IF ~user.is_active
             THEN /\ resp' = Response("login", 0, username, password, 404, "Inactive User")
                  /\ UNCHANGED <<token, token_user_id>>
             ELSE /\ token' = create_access_token([sub |-> user.email],
                                                  Minutes(TOKEN_EXPIRES), now)
                  /\ token_user_id' = user.id
                  /\ resp' = Response("login", 0, username, password, 200, "bearer")
        /\ UNCHANGED <<authDb, crmDb, lastDeleted, now>>
        /\ UNCHANGED notDb

\* GET /auth/verify_token
verify_token_endpoint ==
    LET auth == get_current_user(token, authDb, now) IN
    /\ IF ~auth.ok THEN Rejected("verify_token", 0, "", auth)
       ELSE /\ resp' = Response("verify_token", auth.user.id, auth.user.email, "", 200, "valid")
            /\ UNCHANGED <<authDb, crmDb, lastDeleted>>
    /\ UNCHANGED <<now, token, token_user_id>>
    /\ UNCHANGED notDb

(* auth_manage_user.py *)

\* GET /auth/user/profile
get_profile ==
    LET auth == get_current_user(token, authDb, now) IN
    /\ IF ~auth.ok THEN Rejected("auth_profile", 0, "", auth)
       ELSE /\ resp' = IF ~auth.user.is_active
                         THEN Response("auth_profile", auth.user.id, "", "", 404, "Inactive User")
                         ELSE Response("auth_profile", auth.user.id, "", "", 200, "")
            /\ UNCHANGED <<authDb, crmDb, lastDeleted>>
    /\ UNCHANGED <<now, token, token_user_id>>
    /\ UNCHANGED notDb

\* GET /auth/user/users/{user_id}
auth_get_user(user_id) ==
    LET auth == get_current_user(token, authDb, now) IN
    /\ IF ~auth.ok THEN Rejected("auth_get", user_id, "", auth)
       ELSE /\ resp' = IF user_id \notin IdsOf(authDb)
                         THEN Response("auth_get", user_id, "", "", 404, "User not found")
                         ELSE Response("auth_get", user_id, "", "", 200, "")
            /\ UNCHANGED <<authDb, crmDb, lastDeleted>>
    /\ UNCHANGED <<now, token, token_user_id>>
    /\ UNCHANGED notDb

\* (a variant without the lookup by email: the duplicate reaches db.commit())
auth_create_user_unchecked(user, salt) ==
    LET new == authDb \cup
                 {[id |-> NextId(authDb), name |-> user.name, email |-> user.email,
                   role |-> user.role, hashed_pwd |-> get_pwd_hash(user.password, salt),
                   is_active |-> TRUE]}
    IN
    /\ NextId(authDb) <= MaxId
    /\ IF ~UniqueEmails(new)
         THEN /\ resp' = Response("auth_create", 0, user.email, "", 500, "IntegrityError")
              /\ UNCHANGED authDb
         ELSE /\ authDb' = new
              /\ resp' = Response("auth_create", NextId(authDb), user.email, "", 200, "")
    /\ UNCHANGED <<crmDb, lastDeleted, now, token, token_user_id>>
    /\ UNCHANGED notDb

\* POST /auth/user/create/ (no get_current_user dependency)
auth_create_user(user, salt) ==
    /\ IF \E r \in authDb : r.email = user.email
         THEN /\ resp' = Response("auth_create", 0, user.email, "", 404, "User already exists!")
              /\ UNCHANGED authDb
         ELSE /\ NextId(authDb) <= MaxId
              /\ authDb' = authDb \cup
                    {[id |-> NextId(authDb), name |-> user.name, email |-> user.email,
                      role |-> user.role, hashed_pwd |-> get_pwd_hash(user.password, salt),
                      is_active |-> TRUE]}
              /\ resp' = Response("auth_create", NextId(authDb), user.email, "", 200, "")
    /\ UNCHANGED <<crmDb, lastDeleted, now, token, token_user_id>>
    /\ UNCHANGED notDb

\* (a variant that also clears is_active)
auth_update_user_clearing_active(user_id, update_user) ==
    LET auth    == get_current_user(token, authDb, now)
        db_user == ById(authDb, user_id)
        new     == (authDb \ {db_user}) \cup
                   {[db_user EXCEPT !.name = update_user.name,
                                    !.email = update_user.email,
                                    !.role = update_user.role,
                                    !.is_active = FALSE]}
    IN
    /\ IF ~auth.ok THEN Rejected("auth_update", user_id, update_user.email, auth)
       ELSE IF user_id \notin IdsOf(authDb)
       THEN /\ resp' = Response("auth_update", user_id, update_user.email, "", 404,
                                "User does not exist!")
            /\ UNCHANGED <<authDb, crmDb, lastDeleted>>
       ELSE IF ~UniqueEmails(new)
       THEN /\ resp' = Response("auth_update", user_id, update_user.email, "", 500,
                                "IntegrityError")
            /\ UNCHANGED <<authDb, crmDb, lastDeleted>>
       ELSE /\ authDb' = new
            /\ resp' = Response("auth_update", user_id, update_user.email, "", 200, "")
            /\ UNCHANGED <<crmDb, lastDeleted>>
    /\ UNCHANGED <<now, token, token_user_id>>
    /\ UNCHANGED notDb

\* PUT /auth/user/users/{user_id}: db.commit() is not guarded, an IntegrityError
\* leaves the handler as an unhandled exception (500) and the session is
\* closed without a commit
auth_update_user(user_id, update_user) ==
    LET auth    == get_current_user(token, authDb, now)
        db_user == ById(authDb, user_id)
        new     == (authDb \ {db_user}) \cup
                   {[db_user EXCEPT !.name = update_user.name,
                                    !.email = update_user.email,
                                    !.role = update_user.role]}
    IN
    /\ IF ~auth.ok THEN Rejected("auth_update", user_id, update_user.email, auth)
       ELSE IF user_id \notin IdsOf(authDb)
       THEN /\ resp' = Response("auth_update", user_id, update_user.email, "", 404,
                                "User does not exist!")
            /\ UNCHANGED <<authDb, crmDb, lastDeleted>>
       ELSE IF ~UniqueEmails(new)
       THEN /\ resp' = Response("auth_update", user_id, update_user.email, "", 500,
                                "IntegrityError")
            /\ UNCHANGED <<authDb, crmDb, lastDeleted>>
       ELSE /\ authDb' = new
            /\ resp' = Response("auth_update", user_id, update_user.email, "", 200, "")
            /\ UNCHANGED <<crmDb, lastDeleted>>
    /\ UNCHANGED <<now, token, token_user_id>>
    /\ UNCHANGED notDb

\* (a variant without the test against current_user.id)
auth_delete_user_no_self_guard(user_id) ==
    LET auth == get_current_user(token, authDb, now) IN
    /\ IF ~auth.ok THEN Rejected("auth_delete", user_id, "", auth)
       ELSE IF user_id \notin IdsOf(authDb)
       THEN /\ resp' = Response("auth_delete", user_id, "", "", 404, "User does not exist !")
            /\ UNCHANGED <<authDb, crmDb, lastDeleted>>
       ELSE /\ authDb' = authDb \ {ById(authDb, user_id)}
            /\ lastDeleted' = user_id
            /\ resp' = Response("auth_delete", user_id, "", "", 200, "User Deleted")
            /\ UNCHANGED crmDb
    /\ UNCHANGED <<now, token, token_user_id>>
    /\ UNCHANGED notDb

\* DELETE /auth/user/users/{user_id}
auth_delete_user(user_id) ==
    LET auth == get_current_user(token, authDb, now) IN
    /\ IF ~auth.ok THEN Rejected("auth_delete", user_id, "", auth)
       ELSE IF user_id \notin IdsOf(authDb)
       THEN /\ resp' = Response("auth_delete", user_id, "", "", 404, "User does not exist !")
            /\ UNCHANGED <<authDb, crmDb, lastDeleted>>
       ELSE IF user_id = auth.user.id
       THEN /\ resp' = Response("auth_delete", user_id, "", "", 404,
                                "You cannot delete yourself!")
            /\ UNCHANGED <<authDb, crmDb, lastDeleted>>
       ELSE /\ authDb' = authDb \ {ById(authDb, user_id)}
            /\ lastDeleted' = user_id
            /\ resp' = Response("auth_delete", user_id, "", "", 200, "User Deleted")
            /\ UNCHANGED crmDb
    /\ UNCHANGED <<now, token, token_user_id>>
    /\ UNCHANGED notDb

\* GET /auth/user/users/
auth_get_all_users ==
    LET auth == get_current_user(token, authDb, now) IN
    /\ IF ~auth.ok THEN Rejected("auth_list", 0, "", auth)
       ELSE /\ resp' = Response("auth_list", 0, "", "", 200, "")
            /\ UNCHANGED <<authDb, crmDb, lastDeleted>>
    /\ UNCHANGED <<now, token, token_user_id>>
    /\ UNCHANGED notDb

(* crm_api.py: every handler depends on get_current_user *)

FirstNames == {"Bea"}
Phones     == {"0102030405"}

\* GET /crm/users/{user_id}
crm_get_user(user_id) ==
    LET auth == get_current_user(token, authDb, now) IN
    /\ IF ~auth.ok THEN Rejected("crm_get", user_id, "", auth)
       ELSE /\ resp' = IF user_id \notin IdsOf(crmDb)
                         THEN Response("crm_get", user_id, "", "", 404, "User not found")
                         ELSE Response("crm_get", user_id, "", "", 200, "")
            /\ UNCHANGED <<authDb, crmDb, lastDeleted>>
    /\ UNCHANGED <<now, token, token_user_id>>
    /\ UNCHANGED notDb

\* GET /crm/users/email/{user_email}
crm_get_user_with_email(user_email) ==
    LET auth == get_current_user(token, authDb, now) IN
    /\ IF ~auth.ok THEN Rejected("crm_get_email", 0, user_email, auth)
       ELSE /\ resp' = IF \A r \in crmDb : r.email # user_email
                         THEN Response("crm_get_email", 0, user_email, "", 404, "User not found")
                         ELSE Response("crm_get_email", ByEmail(crmDb, user_email).id,
                                       user_email, "", 200, "")
            /\ UNCHANGED <<authDb, crmDb, lastDeleted>>
    /\ UNCHANGED <<now, token, token_user_id>>
    /\ UNCHANGED notDb

\* (a variant of POST /crm/users/ without the get_current_user dependency)
crm_create_user_unguarded(user) ==
    /\ IF \E r \in crmDb : r.email = user.email
         THEN /\ resp' = Response("crm_create", 0, user.email, "", 404, "User already exists!")
              /\ UNCHANGED crmDb
         ELSE /\ NextId(crmDb) <= MaxId
              /\ crmDb' = crmDb \cup
                    {[id |-> NextId(crmDb), name |-> user.name,
                      first_name |-> user.first_name, email |-> user.email,
                      telephone |-> user.telephone]}
              /\ resp' = Response("crm_create", NextId(crmDb), user.email, "", 200, "")
    /\ UNCHANGED <<authDb, lastDeleted, now, token, token_user_id>>
    /\ UNCHANGED notDb

\* POST /crm/users/
crm_create_user(user) ==
    LET auth == get_current_user(token, authDb, now) IN
    /\ IF ~auth.ok THEN Rejected("crm_create", 0, user.email, auth)
       ELSE IF \E r \in crmDb : r.email = user.email
       THEN /\ resp' = Response("crm_create", 0, user.email, "", 404, "User already exists!")
            /\ UNCHANGED <<authDb, crmDb, lastDeleted>>
       ELSE /\ NextId(crmDb) <= MaxId
            /\ crmDb' = crmDb \cup
                  {[id |-> NextId(crmDb), name |-> user.name,
                    first_name |-> user.first_name, email |-> user.email,
                    telephone |-> user.telephone]}
            /\ resp' = Response("crm_create", NextId(crmDb), user.email, "", 200, "")
            /\ UNCHANGED <<authDb, lastDeleted>>
    /\ UNCHANGED <<now, token, token_user_id>>
    /\ UNCHANGED notDb

\* PUT /crm/users/{user_id}: IntegrityError at db.commit() is caught and
\* answered with 404 'User already exists!'; the session is closed uncommitted
crm_update_user(user_id, user) ==
    LET auth    == get_current_user(token, authDb, now)
        db_user == ById(crmDb, user_id)
        new     == (crmDb \ {db_user}) \cup
                   {[db_user EXCEPT !.name = user.name,
                                    !.first_name = user.first_name,
                                    !.email = user.email,
                                    !.telephone = user.telephone]}
    IN
    /\ IF ~auth.ok THEN Rejected("crm_update", user_id, user.email, auth)
       ELSE IF user_id \notin IdsOf(crmDb)
       THEN /\ resp' = Response("crm_update", user_id, user.email, "", 404,
                                "User does not exist!")
            /\ UNCHANGED <<authDb, crmDb, lastDeleted>>
       ELSE IF ~UniqueEmails(new)
       THEN /\ resp' = Response("crm_update", user_id, user.email, "", 404,
                                "User already exists!")
            /\ UNCHANGED <<authDb, crmDb, lastDeleted>>
       ELSE /\ crmDb' = new
            /\ resp' = Response("crm_update", user_id, user.email, "", 200, "")
            /\ UNCHANGED <<authDb, lastDeleted>>
    /\ UNCHANGED <<now, token, token_user_id>>
    /\ UNCHANGED notDb

\* DELETE /crm/users/{user_id}
crm_delete_user(user_id) ==
    LET auth == get_current_user(token, authDb, now) IN
    /\ IF ~auth.ok THEN Rejected("crm_delete", user_id, "", auth)
       ELSE IF user_id \notin IdsOf(crmDb)
       THEN /\ resp' = Response("crm_delete", user_id, "", "", 404, "User does not exist !")
            /\ UNCHANGED <<authDb, crmDb, lastDeleted>>
       ELSE /\ crmDb' = crmDb \ {ById(crmDb, user_id)}
            /\ resp' = Response("crm_delete", user_id, "", "", 200, "User Deleted")
            /\ UNCHANGED <<authDb, lastDeleted>>
    /\ UNCHANGED <<now, token, token_user_id>>
    /\ UNCHANGED notDb

\* GET /crm/users/
crm_get_all_users ==
    LET auth == get_current_user(token, authDb, now) IN
    /\ IF ~auth.ok THEN Rejected("crm_list", 0, "", auth)
       ELSE /\ resp' = Response("crm_list", 0, "", "", 200, "")
            /\ UNCHANGED <<authDb, crmDb, lastDeleted>>
    /\ UNCHANGED <<now, token, token_user_id>>
    /\ UNCHANGED notDb

AuthUserCreate ==
    [name : Names, email : Emails, role : Roles, password : NewPasswords]

CrmUserCreate ==
    [name : Names, first_name : FirstNames, email : Emails, telephone : Phones]

ClientNext ==
    \/ \E e \in Emails : PresentExpiredToken(e)
    \/ \E e \in Emails : PresentForgedToken(e)
    \/ PresentNoToken
    \/ \E id \in Ids : Deactivate(id)

AuthNext ==
    \/ \E e \in Emails, p \in Passwords : login_for_access_token(e, p)
    \/ verify_token_endpoint
    \/ get_profile
    \/ \E id \in Ids : auth_get_user(id)
    \/ \E u \in AuthUserCreate, salt \in Salts : auth_create_user(u, salt)
    \/ \E id \in Ids, u \in AuthUserCreate : auth_update_user(id, u)
    \/ \E id \in Ids : auth_delete_user(id)
    \/ auth_get_all_users

CrmNext ==
    \/ \E id \in Ids : crm_get_user(id)
    \/ \E e \in Emails : crm_get_user_with_email(e)
    \/ \E u \in CrmUserCreate : crm_create_user(u)
    \/ \E id \in Ids, u \in CrmUserCreate : crm_update_user(id, u)
    \/ \E id \in Ids : crm_delete_user(id)
    \/ crm_get_all_users

StoreNext == ClientNext \/ AuthNext \/ CrmNext

----------------------------------------------------------------------------
(* Overlapping requests. Every handler is a plain `def`, which FastAPI runs *)
(* in a worker thread with a session of its own: a handler reads (its       *)
(* get_current_user dependency and its query) in one step and writes at     *)
(* db.commit() in a later one, and other requests run in between. SQLite    *)
(* applies one commit at a time.                                            *)

notRace == <<genVars, seqVars, concVars, apiVars, tokVars, lastDeleted, token_user_id>>

\* the bearer token of a caller who logged in as `email` and has not logged out
CallerToken(email) == create_access_token([sub |-> email], Minutes(TOKEN_EXPIRES), now)

\* the handler has read and goes on to write (a handler that raises before
\* db.commit() has written nothing: these steps are those of the requests
\* that pass their tests)
Proceeds(r, request) ==
    /\ inflight' = [inflight EXCEPT ![r] = request]
    /\ UNCHANGED <<authDb, crmDb, resp>>

\* the request is answered after db.commit()
Answered(r, response) ==
    /\ resp' = response
    /\ inflight' = [inflight EXCEPT ![r] = Idle]

\* the row a session's UPDATE leaves: the attributes the handler changed on
\* the object it loaded are written over the row that has the id now
Flushed(row, loaded, changes) ==
    [a \in DOMAIN row |->
        IF a \in DOMAIN changes /\ changes[a] # loaded[a] THEN changes[a] ELSE row[a]]

\* POST /auth/user/create/, up to db.add(): the email is not registered
auth_create_user_read(r, user) ==
    /\ inflight[r] = Idle
    /\ ~\E u \in authDb : u.email = user.email
    /\ Proceeds(r, [op |-> "auth_create", id |-> 0, user |-> user, caller |-> 0])
    /\ UNCHANGED notRace

\* POST /auth/user/create/, db.commit(): the INSERT, under the unique constraint
auth_create_user_commit(r, salt) ==
    LET user == inflight[r].user
        new  == authDb \cup
                  {[id |-> NextId(authDb), name |-> user.name, email |-> user.email,
                    role |-> user.role, hashed_pwd |-> get_pwd_hash(user.password, salt),
                    is_active |-> TRUE]}
    IN
    /\ inflight[r].op = "auth_create"
    /\ NextId(authDb) <= MaxId
    /\ IF ~UniqueEmails(new)
         THEN /\ Answered(r, Response("auth_create", 0, user.email, "", 500, "IntegrityError"))
              /\ UNCHANGED authDb
         ELSE /\ Answered(r, Response("auth_create", NextId(authDb), user.email, "", 200, ""))
              /\ authDb' = new
    /\ UNCHANGED crmDb
    /\ UNCHANGED notRace

\* PUT /auth/user/users/{user_id}, up to the assignments to db_user: the
\* caller is resolved and the row exists
auth_update_user_read(r, user_id, update_user, caller) ==
    LET auth == get_current_user(CallerToken(caller), authDb, now) IN
    /\ inflight[r] = Idle
    /\ auth.ok
    /\ user_id \in IdsOf(authDb)
    /\ Proceeds(r, [op |-> "auth_update", id |-> user_id, user |-> update_user,
                     caller |-> 0, db_user |-> ById(authDb, user_id)])
    /\ UNCHANGED notRace

\* PUT /auth/user/users/{user_id}, db.commit() and db.refresh(): the UPDATE by
\* id; IntegrityError is not caught, a row that is gone is an error as well
auth_update_user_commit(r) ==
    LET req     == inflight[r]
        changes == [name |-> req.user.name, email |-> req.user.email, role |-> req.user.role]
        row     == ById(authDb, req.id)
        new     == (authDb \ {row}) \cup {Flushed(row, req.db_user, changes)}
    IN
    /\ req.op = "auth_update"
    /\ IF req.id \notin IdsOf(authDb)
         THEN /\ Answered(r, Response("auth_update", req.id, req.user.email, "", 500,
                                      "row is gone"))
              /\ UNCHANGED authDb
       ELSE IF ~UniqueEmails(new)
         THEN /\ Answered(r, Response("auth_update", req.id, req.user.email, "", 500,
                                      "IntegrityError"))
              /\ UNCHANGED authDb
         ELSE /\ Answered(r, Response("auth_update", req.id, req.user.email, "", 200, ""))
              /\ authDb' = new
    /\ UNCHANGED crmDb
    /\ UNCHANGED notRace

\* DELETE /auth/user/users/{user_id}, up to db.delete(): the caller is
\* resolved, the row exists and is not the caller's
auth_delete_user_read(r, user_id, caller) ==
    LET auth == get_current_user(CallerToken(caller), authDb, now) IN
    /\ inflight[r] = Idle
    /\ auth.ok
    /\ user_id \in IdsOf(authDb)
    /\ user_id # auth.user.id
    /\ Proceeds(r, [op |-> "auth_delete", id |-> user_id, caller |-> auth.user.id])
    /\ UNCHANGED notRace

\* DELETE /auth/user/users/{user_id}, db.commit(): the DELETE by id (deleting
\* no row is only warned about)
auth_delete_user_commit(r) ==
    LET req == inflight[r] IN
    /\ req.op = "auth_delete"
    /\ authDb' = {u \in authDb : u.id # req.id}
    /\ Answered(r, Response("auth_delete", req.id, "", "", 200, "User Deleted"))
    /\ UNCHANGED crmDb
    /\ UNCHANGED notRace

\* POST /crm/users/, up to db.add()
crm_create_user_read(r, user, caller) ==
    LET auth == get_current_user(CallerToken(caller), authDb, now) IN
    /\ inflight[r] = Idle
    /\ auth.ok
    /\ ~\E u \in crmDb : u.email = user.email
    /\ Proceeds(r, [op |-> "crm_create", id |-> 0, user |-> user, caller |-> 0])
    /\ UNCHANGED notRace

\* POST /crm/users/, db.commit(): IntegrityError is not caught here
crm_create_user_commit(r) ==
    LET user == inflight[r].user
        new  == crmDb \cup
                  {[id |-> NextId(crmDb), name |-> user.name,
                    first_name |-> user.first_name, email |-> user.email,
                    telephone |-> user.telephone]}
    IN
    /\ inflight[r].op = "crm_create"
    /\ NextId(crmDb) <= MaxId
    /\ IF ~UniqueEmails(new)
         THEN /\ Answered(r, Response("crm_create", 0, user.email, "", 500, "IntegrityError"))
              /\ UNCHANGED crmDb
         ELSE /\ Answered(r, Response("crm_create", NextId(crmDb), user.email, "", 200, ""))
              /\ crmDb' = new
    /\ UNCHANGED authDb
    /\ UNCHANGED notRace

\* PUT /crm/users/{user_id}, up to the setattr loop
crm_update_user_read(r, user_id, user, caller) ==
    LET auth == get_current_user(CallerToken(caller), authDb, now) IN
    /\ inflight[r] = Idle
    /\ auth.ok
    /\ user_id \in IdsOf(crmDb)
    /\ Proceeds(r, [op |-> "crm_update", id |-> user_id, user |-> user,
                     caller |-> 0, db_user |-> ById(crmDb, user_id)])
    /\ UNCHANGED notRace

\* PUT /crm/users/{user_id}, db.commit() in its try block, and db.refresh()
crm_update_user_commit(r) ==
    LET req == inflight[r]
        row == ById(crmDb, req.id)
        new == (crmDb \ {row}) \cup {Flushed(row, req.db_user, req.user)}
    IN
    /\ req.op = "crm_update"
    /\ IF req.id \notin IdsOf(crmDb)
         THEN /\ Answered(r, Response("crm_update", req.id, req.user.email, "", 500,
                                      "row is gone"))
              /\ UNCHANGED crmDb
       ELSE IF ~UniqueEmails(new)
         THEN /\ Answered(r, Response("crm_update", req.id, req.user.email, "", 404,
                                      "User already exists!"))
              /\ UNCHANGED crmDb
         ELSE /\ Answered(r, Response("crm_update", req.id, req.user.email, "", 200, ""))
              /\ crmDb' = new
    /\ UNCHANGED authDb
    /\ UNCHANGED notRace

\* DELETE /crm/users/{user_id}, up to db.delete()
crm_delete_user_read(r, user_id, caller) ==
    LET auth == get_current_user(CallerToken(caller), authDb, now) IN
    /\ inflight[r] = Idle
    /\ auth.ok
    /\ user_id \in IdsOf(crmDb)
    /\ Proceeds(r, [op |-> "crm_delete", id |-> user_id, caller |-> 0])
    /\ UNCHANGED notRace

\* DELETE /crm/users/{user_id}, db.commit()
crm_delete_user_commit(r) ==
    LET req == inflight[r] IN
    /\ req.op = "crm_delete"
    /\ crmDb' = {u \in crmDb : u.id # req.id}
    /\ Answered(r, Response("crm_delete", req.id, "", "", 200, "User Deleted"))
    /\ UNCHANGED authDb
    /\ UNCHANGED notRace

RaceNext ==
    \E r \in Requests :
        \/ \E u \in AuthUserCreate : auth_create_user_read(r, u)
        \/ \E salt \in Salts : auth_create_user_commit(r, salt)
        \/ \E id \in Ids, u \in AuthUserCreate, e \in Emails : auth_update_user_read(r, id, u, e)
        \/ auth_update_user_commit(r)
        \/ \E id \in Ids, e \in Emails : auth_delete_user_read(r, id, e)
        \/ auth_delete_user_commit(r)
        \/ \E u \in CrmUserCreate, e \in Emails : crm_create_user_read(r, u, e)
        \/ crm_create_user_commit(r)
        \/ \E id \in Ids, u \in CrmUserCreate, e \in Emails : crm_update_user_read(r, id, u, e)
        \/ crm_update_user_commit(r)
        \/ \E id \in Ids, e \in Emails : crm_delete_user_read(r, id, e)
        \/ crm_delete_user_commit(r)

\* the requests of the API to the auth store alone, one at a time, from the
\* empty store: nothing but the handlers writes users.db
RequestNext == AuthNext

----------------------------------------------------------------------------
(* Specifications *)

vars == <<genVars, seqVars, concVars, apiVars, tokVars, dbVars, raceVars>>

InitGen    == GenInit /\ SeqInit /\ ConcInit /\ ApiOff /\ TokInit /\ DbInit
InitApi    == GenOff /\ SeqInit /\ ConcInit /\ ApiInit /\ TokInit /\ DbInit
InitTok    == GenOff /\ SeqInit /\ ConcInit /\ ApiOff /\ TokInit /\ DbInit
InitStores == GenOff /\ SeqInit /\ ConcInit /\ ApiOff /\ StoreTokInit /\ DbInit

\* sequential calls of manifest_generator.update_manifest_cache() and file changes
SpecGen == InitGen /\ [][SeqNext]_vars

\* concurrent calls of manifest_generator.update_manifest_cache()
SpecConc == InitGen /\ [][ConcNext]_vars

\* sequential calls of update_manifest_cache() while files are modified and
\* CONFIG_FILE is removed and rewritten
SpecConfig == InitGen /\ [][ConfigNext]_vars

\* sequential calls of update_manifest_cache() while files are modified,
\* removed and added
SpecFiles == InitGen /\ [][FilesNext]_vars

\* concurrent calls of update_manifest_cache(), one after another in each
\* thread, over a directory that is modified meanwhile
SpecLive == InitGen /\ [][LiveNext]_vars

\* calls of GET /update/latest (manifest_api) and file changes
SpecApi == InitApi /\ [][ApiNext]_vars

\* create_access_token() and verify_token() over time
SpecTok == InitTok /\ [][TokNext]_vars

\* the HTTP handlers over the auth store and the CRM store
SpecStores == InitStores /\ [][StoreNext]_vars

\* the handlers that write, overlapping
SpecRace == InitStores /\ [][RaceNext]_vars

\* the auth-store handlers alone
SpecRequests == InitStores /\ [][RequestNext]_vars

----------------------------------------------------------------------------
(* Claims about manifest_generator *)

\* C1: after one build, when exactly one file was modified before the next
\* update_manifest_cache() call, that call regenerates the manifest, the
\* digest of the modified file differs from the previous one and the digests
\* of all other files are unchanged.
C1_StalenessDetection ==
    (prevRet # NoReturn /\ Len(lastMods) = 1) =>
        LET p == lastMods[1] IN
        /\ rebuilt
        /\ lastRet.files[p] # prevRet.files[p]
        /\ \A q \in DOMAIN prevRet.files \ {p} : lastRet.files[q] = prevRet.files[q]

\* the threads that are at a step which reads or writes LAST_MOD or manifest_cache
\* (line 125 reads LAST_MOD only when the directory is non-empty and ZIP_PATH exists)
Touching ==
    {t \in Threads :
        \/ pc[t] \in {"zip_set", "check", "generate"}
        \/ pc[t] = "zip_check" /\ ~DirEmpty(fs) /\ zipFile # NoZip}

AllDone == \A t \in Threads : pc[t] = "done"

C10_LockCoverage ==
    /\ \A t \in Touching : CACHE_LOCK = t
    /\ Cardinality(Touching) <= 1

\* a step that is a whole update_manifest_cache() call ending in an exception
FailedCall == fs' = fs /\ configFile' = configFile /\ IsRaised(lastRet')

\* C11: when generate_manifest() fails inside update_manifest_cache() (missing
\* CONFIG_FILE or missing key), LAST_MOD and manifest_cache keep the values
\* they had before the call.
C11_TimestampAfterBuild ==
    [][FailedCall => (LAST_MOD' = LAST_MOD /\ manifest_cache' = manifest_cache)]_vars

\* C12: over a non-empty directory, create_zip_if_needed() returns without
\* rebuilding only when the archive holds the current files: an archive that
\* is missing or was built before the latest file modification is rebuilt.
C12_ArchiveFreshness ==
    [][\A t \in Threads :
          (pc[t] = "zip_check" /\ pc'[t] = "lock_wait" /\ ~DirEmpty(fs))
             => zipFile = Archive(fs)]_vars

\* C16: when update_manifest_cache() has returned and nothing has changed
\* since, the 'files' of the returned and cached manifest map exactly the
\* files now under CLIENT_DIR to the digests of their current contents.
C16_ManifestTracksFiles ==
    (lastRet # NoReturn /\ ~IsRaised(lastRet) /\ mods = <<>>) =>
        /\ lastRet = manifest_cache
        /\ DOMAIN manifest_cache.files = Present(fs)
        /\ \A p \in Present(fs) : manifest_cache.files[p] = sha256_file(fs[p].content)

----------------------------------------------------------------------------
(* Claims about manifest_api *)

\* C2: over consecutive GET /update/latest calls with no file changed from
\* outside, every call after the first returns what the first returned and
\* does not run generate_manifest() again.
C2_Idempotent ==
    api_first # NoReturn => (api_last = api_first /\ api_regens = 0)

----------------------------------------------------------------------------
(* Claims about the token service *)

\* the instant "exp" names: utcnow() + expires_delta, cut to whole seconds
ExpiryTick == ((tok_issue.at + tok_issue.ttl) \div TicksPerSecond) * TicksPerSecond

Is401(r) == ~r.ok /\ r.status = 401

\* the token create_access_token() made for a subject with a ttl > 0, unaltered
IssuedIntact == token.sig = "valid" /\ tok_issue.sub # NoSub /\ tok_issue.ttl > 0

\* C4 as stated: verify_token(create_access_token({sub}, ttl)) returns the
\* subject at every time not later than issue_time + ttl and fails with 401 at
\* every later time; it fails with 401 on an invalid signature or a missing sub.
C4_RoundTrip ==
    tok_result # NoResult =>
        /\ (IssuedIntact /\ now <= tok_issue.at + tok_issue.ttl)
              => tok_result = [ok |-> TRUE, email |-> tok_issue.sub]
        /\ (IssuedIntact /\ now > tok_issue.at + tok_issue.ttl) => Is401(tok_result)
        /\ (token.sig # "valid" \/ token.sub = NoSub) => Is401(tok_result)

\* C4 amended: the subject is returned at every time before issue_time + ttl
\* cut to a whole second, and verify_token fails with 401 from that instant on
\* (so at every time later than issue_time + ttl); it fails with 401 on an
\* invalid signature or a missing sub.
C4_RoundTripWholeSeconds ==
    tok_result # NoResult =>
        /\ (IssuedIntact /\ now < ExpiryTick)
              => tok_result = [ok |-> TRUE, email |-> tok_issue.sub]
        /\ (IssuedIntact /\ now >= ExpiryTick) => Is401(tok_result)
        /\ (token.sig # "valid" \/ token.sub = NoSub) => Is401(tok_result)

C4_Witness ==
    /\ tok_result # NoResult
    /\ IssuedIntact
    /\ now > tok_issue.at
    /\ tok_result = [ok |-> TRUE, email |-> tok_issue.sub]

----------------------------------------------------------------------------
(* Claims about the stores *)

ProtectedOps ==
    {"verify_token", "auth_profile", "auth_get", "auth_update", "auth_delete", "auth_list",
     "crm_get", "crm_get_email", "crm_create", "crm_update", "crm_delete", "crm_list"}

\* the presented token verifies and its subject is the email of a record of the auth store
Authorized ==
    /\ token # NoToken
    /\ token.sig = "valid"
    /\ token.exp * TicksPerSecond > now
    /\ token.sub # NoSub
    /\ \E u \in authDb : u.email = token.sub

StoresUnchanged == authDb' = authDb /\ crmDb' = crmDb

\* C5: a CRM-store operation or an auth-store operation other than create
\* completes only for a token that verifies and whose subject is in the auth
\* store; otherwise it ends with 401 and no store changes. Resolving the
\* current user changes no store.
C5_AccessControl ==
    [][resp'.op \in ProtectedOps =>
          /\ resp'.status # 401 => Authorized
          /\ ~Authorized => (resp'.status = 401 /\ StoresUnchanged)
          /\ resp'.op = "verify_token" => StoresUnchanged]_vars

C5_Witness ==
    /\ resp.op = "crm_delete"
    /\ resp.status = 401
    /\ resp.id \in IdsOf(crmDb)
    /\ token # NoToken
    /\ \E u \in authDb : u.email = token.sub

\* what auth-store delete_user does for an authenticated caller
DeleteGuard ==
    (resp'.op = "auth_delete" /\ resp'.status # 401) =>
        LET caller == ByEmail(authDb, token.sub) IN
        /\ resp'.id = caller.id =>
              (resp'.status = 404 /\ resp'.detail = "You cannot delete yourself!"
               /\ authDb' = authDb)
        /\ (resp'.id \in IdsOf(authDb) /\ resp'.id # caller.id) =>
              (resp'.status = 200 /\ authDb' = authDb \ {ById(authDb, resp'.id)}
               /\ resp'.id \notin IdsOf(authDb'))
        /\ resp'.id \notin IdsOf(authDb) =>
              (resp'.status = 404 /\ resp'.detail = "User does not exist !"
               /\ authDb' = authDb)

\* C6 as stated: self-delete is rejected, deleting another existing id removes
\* exactly that record, deleting an absent id is not found, and any later
\* get_user for a deleted id returns not found.
C6_SelfDeleteGuard ==
    [][/\ DeleteGuard
       /\ (resp'.op = "auth_get" /\ resp'.status # 401 /\ resp'.id = lastDeleted)
             => resp'.status = 404]_vars

\* C6 amended: the same, with get_user for the deleted id returning not found
\* for as long as no later create_user is assigned that id: get_user returns
\* not found exactly when no record has the id, and an id enters the store
\* only as the id a create_user assigns.
C6_SelfDeleteGuardUntilReuse ==
    [][/\ DeleteGuard
       /\ (resp'.op = "auth_get" /\ resp'.status # 401)
             => (resp'.status = 404 <=> resp'.id \notin IdsOf(authDb'))
       /\ \A i \in IdsOf(authDb') \ IdsOf(authDb) :
             resp'.op = "auth_create" /\ resp'.status = 200 /\ resp'.id = i]_vars

C6_Witness ==
    /\ resp.op = "auth_delete"
    /\ resp.status = 200
    /\ lastDeleted = resp.id
    /\ resp.id \notin IdsOf(authDb)
    /\ authDb # {}

\* C7: create_user with an email already registered in its store ends with
\* 404 'User already exists!' and changes no record.
C7_CreateConflict ==
    [][/\ (resp'.op = "auth_create" /\ \E r \in authDb : r.email = resp'.email)
             => (resp'.status = 404 /\ resp'.detail = "User already exists!"
                 /\ StoresUnchanged)
       /\ (resp'.op = "crm_create" /\ resp'.status # 401
           /\ \E r \in crmDb : r.email = resp'.email)
             => (resp'.status = 404 /\ resp'.detail = "User already exists!"
                 /\ StoresUnchanged)]_vars

C7_Witness ==
    /\ resp.op = "auth_create"
    /\ resp.status = 404
    /\ resp.detail = "User already exists!"
    /\ \E r \in authDb : r.email = resp.email

\* C8: login returns a bearer token whose subject is the user's email exactly
\* when the username is the email of a user of the auth store, the password
\* verifies against that user's hash and the user is active; otherwise it
\* returns 404 and no token. Login changes no store.
C8_Login ==
    [][resp'.op = "login" =>
          LET good == \E u \in authDb : /\ u.email = resp'.email
                                        /\ verify_pwd(resp'.pw, u.hashed_pwd)
                                        /\ u.is_active
          IN  /\ good => /\ resp'.status = 200
                         /\ resp'.detail = "bearer"
                         /\ token'.sub = resp'.email
                         /\ token'.sig = "valid"
                         /\ jwt_decode_ok(token', now)
              /\ ~good => (resp'.status = 404 /\ token' = token)
              /\ StoresUnchanged]_vars

C8_Witness ==
    /\ resp.op = "login"
    /\ resp.status = 200
    /\ token # NoToken
    /\ token.sub = resp.email

\* C9: in each store, update_user that would give a record the email of
\* another record ends with the conflict outcome 404 'User already exists!',
\* not a database error, and leaves the store as it was.
C9_UpdateConflict ==
    [][/\ (resp'.op = "auth_update" /\ resp'.status # 401
           /\ resp'.id \in IdsOf(authDb)
           /\ \E r \in authDb : r.id # resp'.id /\ r.email = resp'.email)
             => (resp'.status = 404 /\ resp'.detail = "User already exists!"
                 /\ StoresUnchanged)
       /\ (resp'.op = "crm_update" /\ resp'.status # 401
           /\ resp'.id \in IdsOf(crmDb)
           /\ \E r \in crmDb : r.id # resp'.id /\ r.email = resp'.email)
             => (resp'.status = 404 /\ resp'.detail = "User already exists!"
                 /\ StoresUnchanged)]_vars

\* C13: in every reachable state, also while requests overlap, no two records
\* of the auth store have the same email and no two records of the CRM store
\* have the same email.
C13_EmailUniqueness ==
    /\ \A u1, u2 \in authDb : u1 # u2 => u1.email # u2.email
    /\ \A u1, u2 \in crmDb : u1 # u2 => u1.email # u2.email

\* two creates for one email both passed the lookup, and the second commit failed
C13_Witness ==
    /\ resp.op = "auth_create"
    /\ resp.status = 500
    /\ \E u \in authDb : u.email = resp.email
    /\ Cardinality(authDb) = 1

\* C14: the token a login issued to the record with id U is resolved by
\* get_current_user to the record with id U or to a 401 failure.
C14_TokenBinding ==
    (token # NoToken /\ token_user_id # 0) =>
        LET current_user == get_current_user(token, authDb, now) IN
        IF current_user.ok THEN current_user.user.id = token_user_id
                           ELSE current_user.status = 401

\* C15: when an auth-store delete_user request succeeds, the record of its
\* caller is in the store as the request returns, and no delete_user request
\* empties a non-empty auth store.
C15_CallerSurvives ==
    [][\A r \in Requests :
          (inflight[r].op = "auth_delete" /\ inflight'[r] = Idle /\ resp'.status = 200)
             => /\ inflight[r].caller \in IdsOf(authDb')
                /\ authDb # {} => authDb' # {}]_vars

\* C17: from the empty auth store and through the API alone, every record has
\* is_active = TRUE and no request ends with 'Inactive User'.
C17_AlwaysActive ==
    /\ \A u \in authDb : u.is_active
    /\ resp # NoResp => resp.detail # "Inactive User"

C17_Witness ==
    /\ resp.op = "auth_profile"
    /\ resp.status = 200
    /\ Cardinality(authDb) = 2
    /\ token_user_id \in IdsOf(authDb)

====
